---- MODULE Spec2Model ----
(***************************************************************************)
(* NostrClient (src/src/class/client.ts): inbound routing, request /       *)
(* response correlation with timeouts, multi-relay publish aggregation     *)
(* and configuration merge.                                                *)
(*                                                                         *)
(* One JavaScript task (a call up to its first await, a continuation, a    *)
(* timer callback, a relay callback) is one action.  Microtasks chained on *)
(* a promise that settles in a task (.then / .catch of ping, the .then of  *)
(* Promise.allSettled) run before the next task and are part of the       *)
(* action that settles it.  The event bus (emitter.js) is modelled from    *)
(* its specification; the relay pool and the envelope codec are external   *)
(* and act nondeterministically.                                           *)
(***************************************************************************)
EXTENDS Integers, Sequences, FiniteSets, TLC

\* ------------------------------------------------------------- bounds
\* Outbound operations (send / request / ping / pong) over one run.
MaxOps == 1
\* Relays the client is constructed with.
NumRelays == 2
\* Calls of connect() over one run, and end-of-stored-events signals the
\* pool delivers for one subscription.
MaxConnects == 1
MaxSignals == 1
\* The same three in the runs that follow the subscription lifecycle.
LifeOps == 1
LifeConnects == 2
LifeSignals == 2
\* Outbound operations in the runs with requests in flight side by side.
PairOps == 2

\* ---------------------------------------------------------- value sets
Self == "self"
Peers == {"p1", "p2"}
Pubkeys == Peers \cup {Self}
\* Recipients the caller addresses send / request / ping to.
Recipients == {"p1"}
\* Correlation ids a caller puts in a template; NoId is an absent id.
Ids == {"a", "b"}
NoId == "none"
\* The values gen_message_id() returns, in the order it returns them.
GenIds == <<"g1", "g2", "g3", "g4">>
RelayNames == <<"r1", "r2", "r3", "r4">>
Absent == -1

VARIABLES
  options,   \* the constructor's options argument
  config,    \* this._config
  filter,    \* this._filter
  sub,       \* this._sub: "null", "open" or "closed"
  conns,     \* the calls of connect(), each with the subscription it started
  ready,     \* this._ready
  ops,       \* the outbound calls made so far, each with its futures
  response,  \* this._inbox.response: its registrations, oldest first
  timers,    \* the runtime's pending timers, oldest first
  genCount,  \* how many ids gen_message_id() has returned
  delivered, \* the event the last task was handed as _handler(event), if any
  out        \* what the last task emitted, in order

vars == <<options, config, filter, sub, conns, ready, ops, response, timers,
          genCount, delivered, out>>

\* ------------------------------------------------------- configuration
DefaultKind == 24133
DefaultReqTimeout == 5000
DefaultSinceOffset == 5
DefaultStartDelay == 2000
\* now() at construction time.
Now == 100

DEFAULT_CONFIG ==
  [ kind         |-> DefaultKind,
    filter       |-> [kinds |-> {DefaultKind}, since |-> Now],
    req_timeout  |-> DefaultReqTimeout,
    since_offset |-> DefaultSinceOffset,
    start_delay  |-> DefaultStartDelay ]

\* { ...base, ...over } on filters: a field of over that is present wins.
\* An absent kinds is the empty set, an absent since is Absent.
SpreadFilter(base, over) ==
  [ kinds |-> IF over.kinds = {} THEN base.kinds ELSE over.kinds,
    since |-> IF over.since = Absent THEN base.since ELSE over.since ]

NoFilter == [kinds |-> {}, since |-> Absent]

NoOptions ==
  [ kind |-> Absent, req_timeout |-> Absent, since_offset |-> Absent,
    start_delay |-> Absent, filter |-> NoFilter ]

\* The options a client is constructed with: none, every recognised field,
\* and a filter that sets one of its two fields.
Options ==
  { NoOptions,
    [ kind |-> 1, req_timeout |-> 1000, since_offset |-> 9, start_delay |-> 50,
      filter |-> [kinds |-> {1}, since |-> 7] ],
    [ NoOptions EXCEPT !.filter = [kinds |-> {}, since |-> 7] ] }

\* get_node_config: the defaults, with only filter overlaid.  The spread
\* of the result takes config and filter; opt's other fields are not read.
get_node_config(opt) ==
  LET cfg == DEFAULT_CONFIG
      flt == SpreadFilter(cfg.filter, opt.filter)
  IN  [cfg EXCEPT !.filter = flt]

get_filter_config(cfg, flt) == SpreadFilter(cfg.filter, flt)

relays == SubSeq(RelayNames, 1, NumRelays)

\* ------------------------------------------------------------ messages
\* An inbound signed event, identified by its content (its id is the hash
\* of it): the author, whether decrypt_envelope and parse_message succeed
\* on it, and the message they yield.
NoEvent == [pubkey |-> "", ok |-> FALSE, type |-> "", method |-> "", mid |-> NoId]

UsedGenIds == {GenIds[k] : k \in 1..genCount}
MsgIds == Ids \cup UsedGenIds

Events ==
  { [pubkey |-> p, ok |-> FALSE, type |-> "", method |-> "", mid |-> NoId] :
      p \in Pubkeys }
  \cup
  { [pubkey |-> p, ok |-> TRUE, type |-> "request", method |-> m, mid |-> i] :
      p \in Pubkeys, m \in {"ping", "get"}, i \in MsgIds }
  \cup
  { [pubkey |-> p, ok |-> TRUE, type |-> t, method |-> "", mid |-> i] :
      p \in Pubkeys, t \in {"accept", "reject", "other"}, i \in MsgIds }

\* One emission: a client notification (chan "event", "message", "error",
\* "bounced", "ready", "close", "info") or an inbox bus emission (chan
\* "author", "request", "response", with the key it is emitted under).
Note(chan, key, ev) == [chan |-> chan, key |-> key, ev |-> ev]

\* No PublishResponse yet.
NoResult == [acks |-> << >>, fails |-> << >>, ok |-> FALSE]

\* ------------------------------------------------------------ promises
\* An outbound call.  kind: "send", "pong" (the send of _pong), "request"
\* or "ping".  phase: "threw" (request without id), "creating" (awaiting
\* create_envelope), "failed" (create_envelope rejected), "sent" (event
\* created and handed to _publish).  pstate / pmsg / reason: the future of
\* send or request.  pingp: the future ping returns.  evkind: the kind of
\* the created event.  receipts: the publish attempt of each relay.  res:
\* what Promise.allSettled(receipts).then(resolve_receipts) yields.
NewOp(kind, id, method, result, to) ==
  [ kind |-> kind, id |-> id, method |-> method, result |-> result, to |-> to,
    phase |-> "creating", evkind |-> 0,
    pstate |-> "pending", pmsg |-> NoEvent, reason |-> "",
    pingp |-> IF kind = "ping" THEN "pending" ELSE "na",
    receipts |-> << >>, res |-> NoResult ]

\* The chain of ping without its catch: a rejected request rejects ping.
PingOutcomeNoCatch(pstate, msg) ==
  CASE pstate = "fulfilled" -> IF msg.type = "accept" THEN "true" ELSE "false"
    [] pstate = "rejected"  -> "rejected"
    [] OTHER                -> "pending"

\* ping: request(...).then(res => res.type === 'accept').catch(_ => false)
PingOutcome(pstate, msg) ==
  CASE pstate = "fulfilled" -> IF msg.type = "accept" THEN "true" ELSE "false"
    [] pstate = "rejected"  -> "false"
    [] OTHER                -> "pending"

\* A future that a later resolve or reject settles again.
SettleOverwrite(op, pstate, msg, reason) ==
  [op EXCEPT !.pstate = pstate, !.pmsg = msg, !.reason = reason]

\* resolve / reject of the promise of an op: a settled promise stays as it
\* is; the chain of ping runs on the settlement.
Settle(op, pstate, msg, reason) ==
  IF op.pstate # "pending" THEN op
  ELSE [op EXCEPT !.pstate = pstate, !.pmsg = msg, !.reason = reason,
                  !.pingp = IF op.kind = "ping"
                            THEN PingOutcome(pstate, msg) ELSE "na"]

\* ------------------------------------------------------ typed event bus
\* within(key, handler, timeout): a one-shot registration, appended.
Within(bus, key, h) == Append(bus, [key |-> key, op |-> h])

\* The ops whose handler emit(key, ...) invokes.
Listeners(bus, key) == {bus[k].op : k \in {j \in 1..Len(bus) : bus[j].key = key}}

\* emit(key, ...) removes the one-shot registrations it invoked.
AfterEmit(bus, key) == SelectSeq(bus, LAMBDA r : r.key # key)

\* The deadline of within passes: the registration of h is removed.
Expire(bus, h) == SelectSeq(bus, LAMBDA r : r.op # h)

\* ------------------------------------------------------- relay publish
\* resolve_receipts over the settled attempts, in relay order: the value
\* of a fulfilled attempt (the pool fulfils with the relay it published to)
\* goes to acks, the reason of a rejected one to fails.
RECURSIVE Collect(_, _)
Collect(settled, status) ==
  IF settled = << >> THEN << >>
  ELSE IF Head(settled).status = status
       THEN <<Head(settled).value>> \o Collect(Tail(settled), status)
       ELSE Collect(Tail(settled), status)

\* ok taken as "no relay failed" instead of "some relay acknowledged".
resolve_receipts_unanimous(settled) ==
  LET acks  == Collect(settled, "fulfilled")
      fails == Collect(settled, "rejected")
  IN  [acks |-> acks, fails |-> fails, ok |-> Len(fails) = 0]

resolve_receipts(settled) ==
  LET acks  == Collect(settled, "fulfilled")
      fails == Collect(settled, "rejected")
  IN  [acks |-> acks, fails |-> fails, ok |-> Len(acks) > 0]

\* The reason relay k rejects a publish with.
FailReasons == <<"x1", "x2", "x3", "x4">>

Pending == [status |-> "pending", value |-> ""]
AllSettled(receipts) ==
  /\ receipts # << >>
  /\ \A k \in 1..Len(receipts) : receipts[k].status # "pending"

\* this._pool.publish(this.relays, event): one attempt per relay.
PoolPublish == [k \in 1..Len(relays) |-> Pending]

\* ----------------------------------------------------------------- Init
Init ==
  /\ options \in Options
  /\ config = get_node_config(options)
  /\ filter = get_filter_config(config, options.filter)
  /\ sub = "null"
  /\ conns = << >>
  /\ ready = FALSE
  /\ ops = << >>
  /\ response = << >>
  /\ timers = << >>
  /\ genCount = 0
  /\ delivered = NoEvent
  /\ out = <<Note("info", "", NoEvent)>>

\* -------------------------------------------------------------- lifecycle
\* The timeouts a caller passes to connect; Absent is no argument.
Timeouts == {Absent, 1}

\* A call of connect and the subscription it started.  timeout: the local
\* variable after timeout ??= this.config.req_timeout.  future: the promise
\* connect returns.  by: the subscription whose signal resolved it.
\* signals: the end-of-stored-events signals of the subscription so far.
NewConn(timeout) ==
  [ timeout |-> IF timeout = Absent THEN config.req_timeout ELSE timeout,
    future |-> "pending", by |-> 0, signals |-> 0 ]

\* connect that arms a timer with its timeout.
ConnectWithDeadline(timeout) ==
  /\ sub' = "open"
  /\ conns' = Append(conns, NewConn(timeout))
  /\ timers' = Append(timers,
       [kind |-> "connect", op |-> Len(conns) + 1,
        delay |-> NewConn(timeout).timeout])
  /\ out' = << >>
  /\ delivered' = NoEvent
  /\ UNCHANGED <<options, config, filter, ready, ops, response, genCount>>

\* connect(timeout): _subscribe() opens a subscription with _handler and
\* _init as its callbacks and keeps its handle; the promise returned
\* resolves from a once('ready') listener.  No timer is set.
Connect(timeout) ==
  /\ sub' = "open"
  /\ conns' = Append(conns, NewConn(timeout))
  /\ out' = << >>
  /\ delivered' = NoEvent
  /\ UNCHANGED <<options, config, filter, ready, ops, response, timers,
                 genCount>>

\* emit('ready', this): every once('ready') listener runs and is removed, so
\* every pending promise of connect resolves.
ReadyEmitted(cs, s) ==
  [k \in DOMAIN cs |->
     IF cs[k].future = "pending"
     THEN [cs[k] EXCEPT !.future = "resolved", !.by = s]
     ELSE cs[k]]

\* _init, the oneose callback handed to the pool with subscription s.  The
\* pool holds it from then on: nothing in the client takes it back or looks
\* at the subscription it is called for.
Eose(s) ==
  /\ s \in DOMAIN conns
  /\ ready' = TRUE
  /\ conns' = [ReadyEmitted(conns, s) EXCEPT ![s].signals = @ + 1]
  /\ out' = <<Note("ready", "", NoEvent)>>
  /\ delivered' = NoEvent
  /\ UNCHANGED <<options, config, filter, sub, ops, response, timers,
                 genCount>>

\* close that also gives up the calls in flight.
CloseCancelling ==
  /\ sub' = IF sub = "null" THEN "null" ELSE "closed"
  /\ ready' = FALSE
  /\ ops' = [i \in DOMAIN ops |-> Settle(ops[i], "rejected", NoEvent, "closed")]
  /\ timers' = << >>
  /\ response' = << >>
  /\ out' = <<Note("close", "", NoEvent)>>
  /\ delivered' = NoEvent
  /\ UNCHANGED <<options, conns, config, filter, genCount>>

\* close that fails on a client that is closed already.
CloseOnce ==
  /\ sub # "closed"
  /\ sub' = IF sub = "null" THEN "null" ELSE "closed"
  /\ ready' = FALSE
  /\ out' = <<Note("close", "", NoEvent)>>
  /\ delivered' = NoEvent
  /\ UNCHANGED <<options, conns, config, filter, ops, response, timers,
                 genCount>>

\* close(): the handle, if any, is closed, the pool leaves the relays (which
\* ends every subscription on them), the flag is cleared, 'close' is emitted.
Close ==
  /\ sub' = IF sub = "null" THEN "null" ELSE "closed"
  /\ ready' = FALSE
  /\ out' = <<Note("close", "", NoEvent)>>
  /\ delivered' = NoEvent
  /\ UNCHANGED <<options, conns, config, filter, ops, response, timers,
                 genCount>>

\* ------------------------------------------------------- outbound calls
\* create_event, up to its await: message.id ??= gen_message_id()
create_event_id(id) == IF id = NoId THEN GenIds[genCount + 1] ELSE id

\* send(message, recipient), up to the await of create_envelope.
Send(id, to) ==
  /\ ops' = Append(ops, NewOp("send", create_event_id(id), "", "", to))
  /\ genCount' = IF id = NoId THEN genCount + 1 ELSE genCount
  /\ out' = << >>
  /\ delivered' = NoEvent
  /\ UNCHANGED <<options, conns, config, filter, sub, ready, response, timers>>

\* request without its check of message.id.
RequestOpUnchecked(kind, id, method, to) == NewOp(kind, id, method, "", to)

\* request(message, recipient), up to the await of create_event: without
\* an id it throws, else create_event starts (the id is there and kept).
RequestOp(kind, id, method, to) ==
  IF id = NoId
  THEN [NewOp(kind, id, method, "", to) EXCEPT
          !.phase = "threw", !.pstate = "rejected",
          !.reason = "message id is required",
          !.pingp = IF kind = "ping" THEN "false" ELSE "na"]
  ELSE NewOp(kind, create_event_id(id), method, "", to)

Request(id, to) ==
  /\ ops' = Append(ops, RequestOp("request", id, "get", to))
  /\ out' = << >>
  /\ delivered' = NoEvent
  /\ UNCHANGED <<options, conns, config, filter, sub, ready, response, timers,
                 genCount>>

\* ping(recipient): a request with method ping and a fresh id.
Ping(to) ==
  /\ ops' = Append(ops, RequestOp("ping", GenIds[genCount + 1], "ping", to))
  /\ genCount' = genCount + 1
  /\ out' = << >>
  /\ delivered' = NoEvent
  /\ UNCHANGED <<options, conns, config, filter, sub, ready, response, timers>>

\* request that sets its timer and registers no listener before _publish.
RegisterDeadlineOnly(i) ==
  /\ timers' = Append(timers,
       [kind |-> "reject", op |-> i, delay |-> config.req_timeout])
  /\ response' = response

\* request that registers its listener and sets no timer of its own.
RegisterListenerOnly(i) ==
  /\ timers' = Append(timers,
       [kind |-> "within", op |-> i, delay |-> config.req_timeout])
  /\ response' = Within(response, ops[i].id, i)

\* request after create_event: the timer of reject('timeout') is set, then
\* the one-shot listener is registered with its own deadline.
Register(i) ==
  /\ timers' = timers \o
       << [kind |-> "reject", op |-> i, delay |-> config.req_timeout],
          [kind |-> "within", op |-> i, delay |-> config.req_timeout] >>
  /\ response' = Within(response, ops[i].id, i)

\* create_envelope fulfils: the event exists, with the configured kind.
\* send goes on to _publish; request registers, then calls _publish.
CreateDone(i) ==
  /\ i \in DOMAIN ops
  /\ ops[i].phase = "creating"
  /\ IF ops[i].kind \in {"request", "ping"}
     THEN Register(i)
     ELSE UNCHANGED <<response, timers>>
  /\ ops' = [ops EXCEPT ![i] = [@ EXCEPT !.phase = "sent",
                                        !.evkind = config.kind,
                                        !.receipts = PoolPublish]]
  /\ out' = << >>
  /\ delivered' = NoEvent
  /\ UNCHANGED <<options, conns, config, filter, sub, ready, genCount>>

\* create_envelope rejects: send and request reject with its error.
CreateFail(i) ==
  /\ i \in DOMAIN ops
  /\ ops[i].phase = "creating"
  /\ ops' = [ops EXCEPT ![i] =
       [Settle(@, "rejected", NoEvent, "error") EXCEPT !.phase = "failed"]]
  /\ out' = << >>
  /\ delivered' = NoEvent
  /\ UNCHANGED <<options, conns, config, filter, sub, ready, response, timers,
                 genCount>>

\* _publish whose failure on every relay rejects the request that made it.
PublishedOrRejected(op) ==
  IF ~AllSettled(op.receipts) THEN op
  ELSE LET done == [op EXCEPT !.res = resolve_receipts(op.receipts)]
       IN  IF op.kind \in {"send", "pong"}
           THEN Settle(done, "fulfilled", NoEvent, "")
           ELSE IF done.res.ok THEN done
                ELSE Settle(done, "rejected", NoEvent, "publish failed")

\* _publish: the attempt of relay k settles; once all have, the result is
\* computed and send fulfils with it (request has dropped the promise).
Published(op) ==
  IF ~AllSettled(op.receipts) THEN op
  ELSE LET done == [op EXCEPT !.res = resolve_receipts(op.receipts)]
       IN  IF op.kind \in {"send", "pong"}
           THEN Settle(done, "fulfilled", NoEvent, "")
           ELSE done

RelaySettle(i, k, status) ==
  /\ i \in DOMAIN ops
  /\ ops[i].phase = "sent"
  /\ k \in DOMAIN ops[i].receipts
  /\ ops[i].receipts[k].status = "pending"
  /\ LET value == IF status = "fulfilled" THEN relays[k] ELSE FailReasons[k]
         op    == [ops[i] EXCEPT !.receipts[k] =
                     [status |-> status, value |-> value]]
     IN  ops' = [ops EXCEPT ![i] = Published(op)]
  /\ out' = << >>
  /\ delivered' = NoEvent
  /\ UNCHANGED <<options, conns, config, filter, sub, ready, response, timers,
                 genCount>>

\* The oldest timer fires (all delays are config.req_timeout, so timers
\* fire in the order they were set): reject('timeout') of a request, or
\* the deadline of its within registration.
TimerFire ==
  /\ timers # << >>
  /\ LET t == Head(timers) IN
       /\ timers' = Tail(timers)
       /\ IF t.kind = "reject"
          THEN /\ ops' = [ops EXCEPT ![t.op] =
                            Settle(@, "rejected", NoEvent, "timeout")]
               /\ UNCHANGED response
          ELSE /\ response' = Expire(response, t.op)
               /\ UNCHANGED ops
  /\ out' = << >>
  /\ delivered' = NoEvent
  /\ UNCHANGED <<options, conns, config, filter, sub, ready, genCount>>

\* ------------------------------------------------------ inbound events
\* _handler emitting on the response inbox for accept only.
RespondAcceptOnly(e) ==
  LET hit == IF e.type = "accept" THEN Listeners(response, e.mid) ELSE {} IN
  /\ ops' = [i \in DOMAIN ops |->
               IF i \in hit THEN Settle(ops[i], "fulfilled", e, "") ELSE ops[i]]
  /\ timers' = SelectSeq(timers, LAMBDA t : t.op \notin hit)
  /\ response' = IF e.type = "accept" THEN AfterEmit(response, e.mid) ELSE response

\* A response inbox that invokes every listener, whatever key it has.
RespondAll(e) ==
  LET hit == {response[k].op : k \in DOMAIN response} IN
  /\ ops' = [i \in DOMAIN ops |->
               IF i \in hit THEN Settle(ops[i], "fulfilled", e, "") ELSE ops[i]]
  /\ timers' = SelectSeq(timers, LAMBDA t : t.op \notin hit)
  /\ response' = << >>

\* The handler within registers in request: clearTimeout(timer), resolve(msg).
\* The registration is one-shot: its own deadline is dropped with it.
Respond(e) ==
  LET hit == Listeners(response, e.mid) IN
  /\ ops' = [i \in DOMAIN ops |->
               IF i \in hit THEN Settle(ops[i], "fulfilled", e, "") ELSE ops[i]]
  /\ timers' = SelectSeq(timers, LAMBDA t : t.op \notin hit)
  /\ response' = AfterEmit(response, e.mid)

\* _pong that leaves the id out of its template: create_event makes one.
PongFreshId(e) ==
  ops' = Append(ops, NewOp("pong", create_event_id(NoId), "", "pong", e.pubkey))

\* _pong(message): send({ result: 'pong', id: message.id }, message.env.pubkey)
Pong(e) ==
  ops' = Append(ops, NewOp("pong", create_event_id(e.mid), "", "pong", e.pubkey))

\* A try block whose second branch is a plain else: whatever is no request
\* goes to the response inbox.
RoutedElseResponse(e) ==
  ( IF e.type = "request" /\ e.method # "ping"
    THEN <<Note("request", e.method, e)>>
    ELSE IF e.type # "request"
         THEN <<Note("response", e.mid, e)>>
         ELSE << >> )
  \o <<Note("author", e.pubkey, e), Note("message", "", e)>>

\* A try block that notifies the message before it routes it.
RoutedMessageFirst(e) ==
  <<Note("message", "", e)>>
  \o ( IF e.type = "request" /\ e.method # "ping"
       THEN <<Note("request", e.method, e)>>
       ELSE IF e.type \in {"accept", "reject"}
            THEN <<Note("response", e.mid, e)>>
            ELSE << >> )
  \o <<Note("author", e.pubkey, e)>>

\* The emissions of the try block of _handler on a decoded message, in order.
Routed(e) ==
  ( IF e.type = "request" /\ e.method # "ping"
    THEN <<Note("request", e.method, e)>>
    ELSE IF e.type \in {"accept", "reject"}
         THEN <<Note("response", e.mid, e)>>
         ELSE << >> )
  \o <<Note("author", e.pubkey, e), Note("message", "", e)>>

\* A catch block that reports the error and no bounce.
BouncedSilent(e) == <<Note("error", "", e)>>

\* The emissions of the catch block of _handler.
Bounced(e) == <<Note("error", "", e), Note("bounced", "", e)>>

\* _handler without its check of the author.
IsOwnNever(e) == FALSE

\* _handler that also drops an event it has just handled.
IsOwnOrRepeated(e) == e.pubkey = Self \/ e = delivered

\* event.pubkey === this.pubkey
IsOwn(e) == e.pubkey = Self

\* _handler(event), the onevent callback of a subscription.  An event of the
\* client's own is dropped.  Any other is notified raw, then decrypted and
\* parsed, then routed (try) or bounced (catch).  The part before the await
\* of decrypt_envelope reads and writes no state of the client, so it is
\* taken together with the part after it, when that part runs: at any time
\* after a subscription was opened, since an event handed over before
\* close() may finish its decryption after it.
Handler(e) ==
  /\ sub # "null"
  /\ delivered' = e
  /\ IF IsOwn(e)
     THEN /\ out' = << >>
          /\ UNCHANGED <<ops, response, timers>>
     ELSE IF ~e.ok
     THEN /\ out' = <<Note("event", "", e)>> \o Bounced(e)
          /\ UNCHANGED <<ops, response, timers>>
     ELSE /\ out' = <<Note("event", "", e)>> \o Routed(e)
          /\ IF e.type = "request" /\ e.method = "ping"
             THEN Pong(e) /\ UNCHANGED <<response, timers>>
             ELSE IF e.type \in {"accept", "reject"}
                  THEN Respond(e)
                  ELSE UNCHANGED <<ops, response, timers>>
  /\ UNCHANGED <<options, conns, config, filter, sub, ready, genCount>>

\* ------------------------------------------------------- specification
\* e is a decoded keepalive request of a peer: _handler answers it with a
\* send, an outbound call.
IsKeepalive(e) ==
  e.pubkey \in Peers /\ e.ok /\ e.type = "request" /\ e.method = "ping"

\* A run makes at most n outbound calls.
OpsBelow(n) == Len(ops) < n

\* A run makes at most n calls of connect, and the pool gives subscription
\* s at most n end-of-stored-events signals.
ConnsBelow(n) == Len(conns) < n
SignalsBelow(s, n) == s \in DOMAIN conns /\ conns[s].signals < n

Next ==
  \/ ConnsBelow(MaxConnects) /\ Connect(Absent)
  \/ \E s \in 1..MaxConnects : SignalsBelow(s, MaxSignals) /\ Eose(s)
  \/ Close
  \/ \E id \in Ids \cup {NoId}, to \in Recipients :
       OpsBelow(MaxOps) /\ Send(id, to)
  \/ \E id \in Ids \cup {NoId}, to \in Recipients :
       OpsBelow(MaxOps) /\ Request(id, to)
  \/ \E to \in Recipients : OpsBelow(MaxOps) /\ Ping(to)
  \/ \E i \in 1..MaxOps : CreateDone(i)
  \/ \E i \in 1..MaxOps : CreateFail(i)
  \/ \E i \in 1..MaxOps, k \in 1..NumRelays, st \in {"fulfilled", "rejected"} :
       RelaySettle(i, k, st)
  \/ TimerFire
  \/ \E e \in Events : (IsKeepalive(e) => OpsBelow(MaxOps)) /\ Handler(e)

Spec == Init /\ [][Next]_vars

\* The subscription lifecycle in full: connect called again with and without
\* a timeout, repeated and late signals, one request of the caller and the
\* events of one peer that answer it or fail to decode.
LifeEvents ==
  { e \in Events : e.pubkey = "p1" /\ e.mid \in {NoId, "a"}
                     /\ e.type \in {"", "accept"} }

\* A client constructed without options.
InitDefault == Init /\ options = NoOptions

NextLife ==
  \/ \E t \in Timeouts : ConnsBelow(LifeConnects) /\ Connect(t)
  \/ \E s \in 1..LifeConnects : SignalsBelow(s, LifeSignals) /\ Eose(s)
  \/ Close
  \/ \E id \in Ids, to \in Recipients : OpsBelow(LifeOps) /\ Request(id, to)
  \/ \E i \in 1..LifeOps : CreateDone(i)
  \/ TimerFire
  \/ \E e \in LifeEvents : Handler(e)

SpecLife == InitDefault /\ [][NextLife]_vars

\* Two outbound calls side by side: requests and pings of the caller, the
\* client closed meanwhile or not, and every event of one peer.  The relays
\* leave the publishes unanswered.
PairEvents == { e \in Events : e.pubkey = "p1" }

NextPair ==
  \/ ConnsBelow(MaxConnects) /\ Connect(Absent)
  \/ Close
  \/ \E id \in Ids, to \in Recipients : OpsBelow(PairOps) /\ Request(id, to)
  \/ \E to \in Recipients : OpsBelow(PairOps) /\ Ping(to)
  \/ \E i \in 1..PairOps : CreateDone(i)
  \/ \E i \in 1..PairOps : CreateFail(i)
  \/ TimerFire
  \/ \E e \in PairEvents : (IsKeepalive(e) => OpsBelow(PairOps)) /\ Handler(e)

SpecPair == InitDefault /\ [][NextPair]_vars

\* Every operation of the client, with the one thing the runtime promises:
\* a timer that is due fires.
SpecLive == InitDefault /\ [][Next]_vars /\ WF_vars(TimerFire)

\* --------------------------------------------------------------- claims
IsRequest(op) == op.kind \in {"request", "ping"}

\* The setTimeout of request i has neither fired nor been cleared.
DeadlineRunning(i) ==
  \E k \in DOMAIN timers : timers[k].kind = "reject" /\ timers[k].op = i

\* e is a decoded accept or reject of a peer that carries the id of request i.
IsResponseFor(e, i) ==
  /\ e.pubkey \in Peers
  /\ e.ok
  /\ e.type \in {"accept", "reject"}
  /\ IsRequest(ops[i])
  /\ e.mid = ops[i].id

SameFuture(a, b) ==
  a.pstate = b.pstate /\ a.pmsg = b.pmsg /\ a.reason = b.reason

\* How many emissions of the last task went to chan.
Count(chan) == Cardinality({k \in DOMAIN out : out[k].chan = chan})

\* C1: a response with the id of a request, routed while the deadline of
\* the request runs, resolves the request with that message; and a future
\* that has settled keeps its outcome through every later response and
\* timer (it is settled once).
C1_ResolvedOnce ==
  [][ \A i \in DOMAIN ops :
        /\ ops[i].pstate # "pending" => SameFuture(ops'[i], ops[i])
        /\ (IsResponseFor(delivered', i) /\ DeadlineRunning(i))
           => (ops'[i].pstate = "fulfilled" /\ ops'[i].pmsg = delivered')
    ]_vars

C1_Witness ==
  \E i \in DOMAIN ops :
    /\ ops[i].kind = "request"
    /\ ops[i].pstate = "fulfilled"
    /\ IsResponseFor(delivered, i)
    /\ ops[i].pmsg = delivered

\* C2: when the timer of a request fires the request rejects with
\* 'timeout', and a rejected request stays rejected with the same reason
\* whatever arrives later.
C2_TimeoutRejects ==
  [][ \A i \in DOMAIN ops :
        /\ ( /\ TimerFire
             /\ Head(timers).kind = "reject"
             /\ Head(timers).op = i )
           => (ops'[i].pstate = "rejected" /\ ops'[i].reason = "timeout")
        /\ (IsRequest(ops[i]) /\ ops[i].pstate = "rejected")
           => SameFuture(ops'[i], ops[i])
    ]_vars

\* A response with the id of the request came after its timeout.
C2_Witness ==
  \E i \in DOMAIN ops :
    /\ ops[i].pstate = "rejected"
    /\ ops[i].reason = "timeout"
    /\ IsResponseFor(delivered, i)
    /\ Count("response") = 1

\* C3: once request has handed its event to _publish, and for as long as
\* the request is pending, its one-shot listener is registered under its id.
C3_ListenerBeforePublish ==
  \A i \in DOMAIN ops :
    (IsRequest(ops[i]) /\ ops[i].receipts # << >> /\ ops[i].pstate = "pending")
      => i \in Listeners(response, ops[i].id)

\* A relay has settled the publish of a request that is still pending.
C3_Witness ==
  \E i \in DOMAIN ops :
    /\ IsRequest(ops[i])
    /\ ops[i].pstate = "pending"
    /\ \E k \in DOMAIN ops[i].receipts : ops[i].receipts[k].status = "fulfilled"
    /\ i \in Listeners(response, ops[i].id)

\* request i has done no I/O: no event, no publish, no timer, no listener.
NoIO(i, op, tms, bus) ==
  /\ op.evkind = 0
  /\ op.receipts = << >>
  /\ op.res = NoResult
  /\ \A k \in DOMAIN tms : tms[k].op # i
  /\ \A k \in DOMAIN bus : bus[k].op # i

\* C4: a request whose template has no id fails with the precondition error
\* and does no I/O, then or later; the call leaves the client state as it was.
C4_NoIdThrows ==
  [][ \A i \in DOMAIN ops' :
        (ops'[i].kind = "request" /\ ops'[i].id \notin Ids)
          => /\ ops'[i].phase = "threw"
             /\ ops'[i].pstate = "rejected"
             /\ ops'[i].reason = "message id is required"
             /\ NoIO(i, ops'[i], timers', response')
             /\ i \notin DOMAIN ops
                  => /\ out' = << >>
                     /\ UNCHANGED <<config, filter, sub, conns, ready,
                                    response, timers, genCount>>
    ]_vars

C4_Witness ==
  \E i \in DOMAIN ops :
    ops[i].kind = "request" /\ ops[i].id = NoId /\ ops[i].phase = "threw"

\* C5: the future of ping is never rejected; it is true exactly when the
\* request resolved with an accept, and false when the request resolved
\* with a reject, timed out or failed otherwise.
C5_PingNeverRejects ==
  \A i \in DOMAIN ops :
    ops[i].kind = "ping" =>
      /\ ops[i].pingp \in {"pending", "true", "false"}
      /\ ops[i].pingp = "pending" <=> ops[i].pstate = "pending"
      /\ ops[i].pingp = "true"
           <=> (ops[i].pstate = "fulfilled" /\ ops[i].pmsg.type = "accept")
      /\ ops[i].pstate = "fulfilled" => ops[i].pmsg.type \in {"accept", "reject"}
      /\ ops[i].pstate = "rejected" => ops[i].reason \in {"timeout", "error"}

\* A ping that an accept with its id has resolved true.
C5_Witness ==
  \E i \in DOMAIN ops :
    /\ ops[i].kind = "ping"
    /\ IsResponseFor(delivered, i)
    /\ delivered.type = "accept"
    /\ ops[i].pingp = "true"

\* The elements of vals at the positions in S, in order, from position k on.
RECURSIVE InOrder(_, _, _)
InOrder(vals, S, k) ==
  IF k > Len(vals) THEN << >>
  ELSE (IF k \in S THEN <<vals[k]>> ELSE << >>) \o InOrder(vals, S, k + 1)

Acked(receipts) == {k \in DOMAIN receipts : receipts[k].status = "fulfilled"}
Failed(receipts) == {k \in DOMAIN receipts : receipts[k].status = "rejected"}

\* C6: the publish result exists exactly when every attempt has settled;
\* its acks are the acknowledging relays in relay order, its fails the
\* reasons of the others in relay order, ok says that some relay
\* acknowledged; send fulfils with it and is never rejected once it publishes.
C6_PublishAggregate ==
  \A i \in DOMAIN ops :
    LET op == ops[i] IN
    /\ op.res # NoResult <=> AllSettled(op.receipts)
    /\ AllSettled(op.receipts) =>
         /\ Len(op.receipts) = Len(relays)
         /\ op.res.acks = InOrder(relays, Acked(op.receipts), 1)
         /\ op.res.fails = InOrder(FailReasons, Failed(op.receipts), 1)
         /\ op.res.ok = (Cardinality(Acked(op.receipts)) > 0)
    /\ (op.kind \in {"send", "pong"} /\ op.phase = "sent") =>
         /\ op.pstate # "rejected"
         /\ op.pstate = "fulfilled" <=> AllSettled(op.receipts)

\* A send whose last relay acknowledged and whose first failed.
C6_Witness ==
  \E i \in DOMAIN ops :
    /\ ops[i].kind = "send"
    /\ ops[i].pstate = "fulfilled"
    /\ ops[i].res.ok
    /\ ops[i].res.acks = <<relays[Len(relays)]>>
    /\ ops[i].res.fails # << >>

\* C7: an event of the client's own identity emits nothing, sends no pong
\* and leaves every request, listener and timer as it was.
C7_OwnEventsDropped ==
  [][ delivered'.pubkey = Self
        => /\ out' = << >>
           /\ UNCHANGED <<ops, response, timers, genCount, sub, conns, ready>>
    ]_vars

\* An accept of the client's own, carrying the id of a pending request whose
\* listener is registered, has been handed to _handler.
C7_Witness ==
  /\ delivered.pubkey = Self
  /\ delivered.ok
  /\ delivered.type = "accept"
  /\ \E i \in DOMAIN ops :
       /\ IsRequest(ops[i])
       /\ ops[i].pstate = "pending"
       /\ ops[i].id = delivered.mid
       /\ i \in Listeners(response, ops[i].id)

\* e is an event of a peer that does not decrypt or parse.
Undecodable(e) == e.pubkey \in Peers /\ ~e.ok

\* C8: right after an undecodable event of a peer the task has emitted the
\* raw event, one error and one bounced notification for that event, no
\* inbox emission and no message notification; and the handler is enabled
\* for every next event.
C8_UndecodableBounced ==
  Undecodable(delivered) =>
    /\ Count("error") = 1
    /\ Count("bounced") = 1
    /\ \A k \in DOMAIN out : out[k].chan = "bounced" => out[k].ev = delivered
    /\ Count("author") = 0
    /\ Count("request") = 0
    /\ Count("response") = 0
    /\ Count("message") = 0
    /\ \A e \in Events : ENABLED Handler(e)

\* An undecodable event was handled while a request was pending.
C8_Witness ==
  /\ Undecodable(delivered)
  /\ Count("bounced") = 1
  /\ \E i \in DOMAIN ops : IsRequest(ops[i]) /\ ops[i].pstate = "pending"

\* C9: a keepalive request with id X of peer P starts one send of
\* {result: 'pong', id: X} to P, takes no fresh id, and is not emitted on
\* the request inbox; the event created for it keeps X, P and the result.
C9_PongKeepsId ==
  [][ /\ IsKeepalive(delivered')
        => /\ Len(ops') = Len(ops) + 1
           /\ ops'[Len(ops')] =
                NewOp("pong", delivered'.mid, "", "pong", delivered'.pubkey)
           /\ genCount' = genCount
           /\ Count("request")' = 0
      /\ \A i \in DOMAIN ops :
           ops[i].kind = "pong"
             => /\ ops'[i].id = ops[i].id
                /\ ops'[i].to = ops[i].to
                /\ ops'[i].result = "pong"
    ]_vars

\* The pong to a keepalive request has been created as an event.
C9_Witness ==
  \E i \in DOMAIN ops :
    /\ ops[i].kind = "pong"
    /\ ops[i].phase = "sent"
    /\ ops[i].id \in Ids
    /\ ops[i].to \in Peers
    /\ ops[i].result = "pong"

\* The value the options give a field, the default when they give none.
Override(given, default) == IF given = Absent THEN default ELSE given

\* C10: every field of the configuration is the caller's value when the
\* options give one and the default otherwise, the filter is the default
\* overlaid with the caller's, the deadline of a request is the configured
\* req_timeout and a created event has the configured kind.
C10_OverridesApplied ==
  /\ config.kind = Override(options.kind, DefaultKind)
  /\ config.req_timeout = Override(options.req_timeout, DefaultReqTimeout)
  /\ config.since_offset = Override(options.since_offset, DefaultSinceOffset)
  /\ config.start_delay = Override(options.start_delay, DefaultStartDelay)
  /\ config.filter = SpreadFilter(DEFAULT_CONFIG.filter, options.filter)
  /\ \A k \in DOMAIN timers :
       timers[k].delay = Override(options.req_timeout, DefaultReqTimeout)
  /\ \A i \in DOMAIN ops :
       ops[i].phase = "sent" => ops[i].evkind = Override(options.kind, DefaultKind)

\* Subscription s got a signal in this step.
Signalled(s) == s \in DOMAIN conns /\ conns'[s].signals = conns[s].signals + 1

Closing == Count("close")' = 1

PendingRequest(i) == IsRequest(ops[i]) /\ ops[i].pstate = "pending"

\* C12: a call of close() closes the subscription handle, clears the ready
\* flag, emits one close notification and leaves every call in flight, every
\* listener and every timer as it was; on a closed client a pending request
\* whose listener is registered still has its deadline running, and it
\* leaves the pending state only by the timeout of that deadline or by a
\* response with its id.
C12_CloseKeepsRequests ==
  [][ /\ Closing
           => /\ sub' = IF sub = "null" THEN "null" ELSE "closed"
              /\ ~ready'
              /\ out' = <<Note("close", "", NoEvent)>>
              /\ UNCHANGED <<ops, response, timers>>
      /\ \A i \in DOMAIN ops :
           (sub = "closed" /\ PendingRequest(i) /\ ops[i].phase = "sent")
             => /\ DeadlineRunning(i)
                /\ i \in Listeners(response, ops[i].id)
                /\ \/ ops'[i].pstate = "pending"
                   \/ /\ ops'[i].pstate = "rejected"
                      /\ ops'[i].reason = "timeout"
                      /\ Head(timers) = [kind |-> "reject", op |-> i,
                                         delay |-> config.req_timeout]
                   \/ /\ ops'[i].pstate = "fulfilled"
                      /\ IsResponseFor(delivered', i)
    ]_vars

\* close() has just run on a request in flight: it is pending as before,
\* with its listener and its deadline.
C12_Witness ==
  /\ out = <<Note("close", "", NoEvent)>>
  /\ sub = "closed"
  /\ \E i \in DOMAIN ops :
       /\ PendingRequest(i)
       /\ DeadlineRunning(i)
       /\ i \in Listeners(response, ops[i].id)

\* sub and ready say that the client is closed or was never connected.
IsClosed == sub # "open" /\ ~ready

\* C13: close() can run in every state and ends in a closed client; on a
\* client that is closed already it changes nothing but what the last task
\* emitted.
C13_CloseIdempotent ==
  /\ [](ENABLED Close)
  /\ [][ Closing
           => /\ IsClosed'
              /\ IsClosed => UNCHANGED <<sub, conns, ready, ops, response,
                                         timers, genCount, config, filter>>
       ]_vars

\* close() has run on a client that had been ready and was connecting
\* again, with a request in flight.
C13_Witness ==
  /\ out = <<Note("close", "", NoEvent)>>
  /\ IsClosed
  /\ Len(conns) = 2
  /\ conns[1].future = "resolved"
  /\ conns[2].future = "pending"
  /\ \E i \in DOMAIN ops : PendingRequest(i)

\* e is an event of a peer that decrypts and parses.
Decoded(e) == e.pubkey \in Peers /\ e.ok

\* The emissions of the last task on chan.
On(chan) == {k \in DOMAIN out : out[k].chan = chan}

\* C14: right after a decoded message of a peer the task has emitted it on
\* the request inbox under its method exactly when it is a request that is
\* no keepalive, on the response inbox under its id exactly when it is an
\* accept or a reject, and, whatever its type, once on the author inbox
\* under its sender and once as a message notification.
C14_RoutedByType ==
  Decoded(delivered) =>
    /\ Count("request") =
         (IF delivered.type = "request" /\ delivered.method # "ping" THEN 1 ELSE 0)
    /\ Count("response") =
         (IF delivered.type \in {"accept", "reject"} THEN 1 ELSE 0)
    /\ Count("author") = 1
    /\ Count("message") = 1
    /\ \A k \in On("request") : out[k].key = delivered.method
    /\ \A k \in On("response") : out[k].key = delivered.mid
    /\ \A k \in On("author") : out[k].key = delivered.pubkey
    /\ \A k \in DOMAIN out : out[k].ev = delivered

\* A message of type other that carries the id of a pending request has
\* been routed: the request is pending as before.
C14_Witness ==
  /\ Decoded(delivered)
  /\ delivered.type = "other"
  /\ Count("author") = 1
  /\ \E i \in DOMAIN ops :
       /\ PendingRequest(i)
       /\ ops[i].id = delivered.mid
       /\ i \in Listeners(response, ops[i].id)

\* C17: right after an event of a peer, decodable or not, the first
\* emission of the task is the one raw event notification; for a decoded
\* message the last emission is the message notification, the author inbox
\* emission is the one before it, and a request or response inbox emission
\* comes before that.
C17_EmissionOrder ==
  delivered.pubkey \in Peers =>
    /\ out # << >>
    /\ On("event") = {1}
    /\ out[1].ev = delivered
    /\ delivered.ok =>
         /\ On("message") = {Len(out)}
         /\ On("author") = {Len(out) - 1}
         /\ \A k \in On("request") \cup On("response") : 1 < k /\ k < Len(out) - 1
    /\ ~delivered.ok => On("error") = {2}

\* A response has been routed: raw event, response inbox, author inbox,
\* message notification.
C17_Witness ==
  /\ Decoded(delivered)
  /\ delivered.type = "reject"
  /\ Len(out) = 4
  /\ out[2].chan = "response"
  /\ out[4].chan = "message"

\* Every relay has refused the event of op.
Unpublished(op) == op.res # NoResult /\ ~op.res.ok /\ op.res.acks = << >>

\* C20: the attempts of the relays, however they settle, leave the future of
\* the request, its listener and its timers as they are; a request whose
\* event every relay has refused stays pending with its listener and its
\* deadline until a response with its id is routed or the deadline passes,
\* and when it is rejected the reason is 'timeout'.
C20_RequestIgnoresPublish ==
  [][ \A i \in DOMAIN ops :
        IsRequest(ops[i]) =>
          /\ (ops[i].phase = "sent" /\ ops'[i].receipts # ops[i].receipts)
               => /\ SameFuture(ops'[i], ops[i])
                  /\ ops'[i].pingp = ops[i].pingp
                  /\ UNCHANGED <<timers, response>>
          /\ (Unpublished(ops[i]) /\ ops[i].pstate = "pending")
               => /\ DeadlineRunning(i)
                  /\ i \in Listeners(response, ops[i].id)
                  /\ \/ ops'[i].pstate = "pending"
                     \/ /\ ops'[i].pstate = "rejected"
                        /\ ops'[i].reason = "timeout"
                        /\ Head(timers).op = i
                     \/ /\ ops'[i].pstate = "fulfilled"
                        /\ IsResponseFor(delivered', i)
          /\ (Unpublished(ops'[i]) /\ ops'[i].pstate = "rejected")
               => ops'[i].reason = "timeout"
    ]_vars

\* A request whose event every relay refused has timed out.
C20_Witness ==
  \E i \in DOMAIN ops :
    /\ ops[i].kind = "request"
    /\ Unpublished(ops[i])
    /\ Len(ops[i].res.fails) = NumRelays
    /\ ops[i].pstate = "rejected"
    /\ ops[i].reason = "timeout"

\* C15: a signal of a subscription that has had one already emits no ready
\* notification, and on a closed client a signal leaves the ready flag
\* cleared.
C15_ReadyOncePerSubscription ==
  [][ /\ \A s \in DOMAIN conns :
           (Signalled(s) /\ conns[s].signals >= 1) => Count("ready")' = 0
      /\ (sub = "closed" /\ sub' = "closed" /\ ~ready) => ~ready'
    ]_vars

\* This step leaves request j, its listener and its deadline as they were.
Intact(j) ==
  /\ ops'[j] = ops[j]
  /\ j \in Listeners(response, ops[j].id)'
  /\ DeadlineRunning(j)'

\* C16: with request j pending, its listener registered, and request i
\* under another id, neither a timer of i that fires nor a response with
\* the id of i touches j: j stays pending with its listener and its deadline.
C16_RequestsIndependent ==
  [][ \A i, j \in DOMAIN ops :
        ( /\ i # j
          /\ IsRequest(ops[i])
          /\ PendingRequest(j)
          /\ ops[j].phase = "sent"
          /\ ops[i].id # ops[j].id )
        => /\ (TimerFire /\ Head(timers).op = i) => Intact(j)
           /\ IsResponseFor(delivered', i) => Intact(j)
    ]_vars

\* The first request has timed out and the second, under another id, has
\* then been resolved by a response with its id.
C16_Witness ==
  /\ Len(ops) = 2
  /\ ops[1].kind = "request"
  /\ ops[1].pstate = "rejected"
  /\ ops[1].reason = "timeout"
  /\ ops[2].kind = "request"
  /\ ops[2].id # ops[1].id
  /\ ops[2].pstate = "fulfilled"
  /\ IsResponseFor(delivered, 2)

\* C18: every delivery of an event of a peer is handled on its own,
\* whatever was delivered before: it emits one raw event notification and,
\* when the event decodes, one author inbox emission and one message
\* notification; a keepalive request starts one more pong with its id; a
\* response with the id of a request that has settled leaves that request
\* as it is.
C18_NoDeduplication ==
  [][ delivered'.pubkey \in Peers =>
        /\ Count("event")' = 1
        /\ delivered'.ok => (Count("author")' = 1 /\ Count("message")' = 1)
        /\ IsKeepalive(delivered')
             => /\ Len(ops') = Len(ops) + 1
                /\ ops'[Len(ops')].kind = "pong"
                /\ ops'[Len(ops')].id = delivered'.mid
        /\ \A i \in DOMAIN ops :
             (IsResponseFor(delivered', i) /\ ops[i].pstate # "pending")
               => ops'[i] = ops[i]
    ]_vars

\* The same keepalive request has been delivered twice: two pongs with its
\* id go to its sender.
C18_Witness ==
  /\ IsKeepalive(delivered)
  /\ Count("event") = 1
  /\ Len(ops) = 2
  /\ \A i \in {1, 2} :
       /\ ops[i].kind = "pong"
       /\ ops[i].id = delivered.mid
       /\ ops[i].to = delivered.pubkey

\* C19: a request or ping whose event has been created is settled in the
\* end, whatever the relays, the peers and the caller do meanwhile, and the
\* future of such a ping is then true or false.
C19_RequestsSettle ==
  \A i \in 1..MaxOps :
    (i \in DOMAIN ops /\ IsRequest(ops[i]) /\ ops[i].phase = "sent")
      ~> ( /\ i \in DOMAIN ops
           /\ ops[i].pstate # "pending"
           /\ ops[i].kind = "ping" => ops[i].pingp \in {"true", "false"} )

\* A ping that no relay took, on a client closed meanwhile, has ended false
\* by its timeout.
C19_Witness ==
  /\ sub = "closed"
  /\ \E i \in DOMAIN ops :
       /\ ops[i].kind = "ping"
       /\ Unpublished(ops[i])
       /\ ops[i].reason = "timeout"
       /\ ops[i].pingp = "false"

====
